---- MODULE Spec2Model ----
(***************************************************************************)
(* Model of the SSE connection tester of arroyo-connectors/src/sse.rs:     *)
(* SSEConnector::test, SseTester::start and SseTester::test_internal,      *)
(* together with the bounded tokio mpsc channel the tester reports on, the *)
(* receiver at the other end of it, the SSE server and the clock.          *)
(***************************************************************************)
EXTENDS Integers, Sequences, FiniteSets, TLC

VARIABLES
    caller,      \* position of the thread that calls Connector::test
    pc,          \* position of the spawned task
    config,      \* SseTester.config: the SseTable (endpoint, headers)
    result,      \* value test_internal returned, once it has returned
    stream,      \* the client/stream local of test_internal
    streamItem,  \* what stream.next() yields when polled
    elapsed,     \* seconds since tokio::time::sleep(timeout) was created
    branch,      \* branch of select! that completed
    bothReady,   \* whether both branches were ready when select! completed
    chan,        \* messages buffered in the mpsc channel
    rxOpen,      \* whether the Receiver of the channel is alive
    received,    \* messages the Receiver has taken out of the channel
    sent,        \* messages a send accepted, in order
    failedSends, \* number of sends that returned Err (receiver gone)
    peer,        \* the other run, when two runs are under way
    call         \* the last call of from_config or from_options

vars == <<caller, pc, config, result, stream, streamItem, elapsed, branch,
          bothReady, chan, rxOpen, received, sent, failedSends, peer, call>>

----------------------------------------------------------------------------
(* Bounds of the model. *)

\* longest headers string that is tried
MaxHeaderLen == 2
\* capacity of the mpsc channel the caller hands to test
ChanCap == 1
\* seconds the clock keeps running after the sleep has become ready
MaxSlack == 1

(* Program constants. *)

\* Duration::from_secs(30)
timeout == 30

----------------------------------------------------------------------------
(* Strings of the configuration, as sequences of characters. *)

HeaderChars == {"a", "@", " ", ":", ","}

RECURSIVE StringsUpTo(_)
StringsUpTo(n) ==
    IF n = 0 THEN {<<>>}
    ELSE LET shorter == StringsUpTo(n - 1)
         IN  shorter \cup {Append(s, c) : s \in {t \in shorter : Len(t) = n - 1},
                                          c \in HeaderChars}

RECURSIVE Str(_)
Str(s) == IF s = <<>> THEN "" ELSE Head(s) \o Str(Tail(s))

\* index of the first c in s, 0 when there is none
RECURSIVE IndexOf(_, _)
IndexOf(s, c) ==
    IF s = <<>> THEN 0
    ELSE IF Head(s) = c THEN 1
    ELSE LET i == IndexOf(Tail(s), c) IN IF i = 0 THEN 0 ELSE i + 1

RECURSIVE Split(_, _)
Split(s, c) ==
    LET i == IndexOf(s, c)
    IN  IF i = 0 THEN <<s>>
        ELSE <<SubSeq(s, 1, i - 1)>> \o Split(SubSeq(s, i + 1, Len(s)), c)

RECURSIVE TrimStart(_)
TrimStart(s) ==
    IF s # <<>> /\ Head(s) = " " THEN TrimStart(Tail(s)) ELSE s

RECURSIVE TrimEnd(_)
TrimEnd(s) ==
    IF s # <<>> /\ s[Len(s)] = " " THEN TrimEnd(SubSeq(s, 1, Len(s) - 1)) ELSE s

Trim(s) == TrimEnd(TrimStart(s))

EmptyMap == [k \in {} |-> <<>>]

\* one entry "key: value" of the headers string
EntryKey(e) == Trim(SubSeq(e, 1, IndexOf(e, ":") - 1))
EntryValue(e) == Trim(SubSeq(e, IndexOf(e, ":") + 1, Len(e)))
EntryOk(e) == IndexOf(e, ":") # 0 /\ EntryKey(e) # <<>>

\* arroyo_types::string_to_map: None, or Some(map); a later entry with the
\* same key replaces an earlier one
string_to_map(raw) ==
    IF raw = <<>> THEN [ok |-> TRUE, map |-> EmptyMap]
    ELSE LET entries == Split(raw, ",")
             n       == Len(entries)
         IN  IF \E i \in 1..n : ~EntryOk(entries[i])
             THEN [ok |-> FALSE, map |-> EmptyMap]
             ELSE [ok  |-> TRUE,
                   map |-> [k \in {EntryKey(entries[i]) : i \in 1..n} |->
                              LET last == CHOOSE i \in 1..n :
                                            /\ EntryKey(entries[i]) = k
                                            /\ \A j \in (i + 1)..n :
                                                  EntryKey(entries[j]) # k
                              IN  EntryValue(entries[last])]]

----------------------------------------------------------------------------
(* The SseTable handed to test. *)

Endpoints == {"http://localhost:9091/sse", "not a url"}

\* Option<Headers>
NoHeaders == [present |-> FALSE, raw |-> <<>>]
SomeHeaders(raw) == [present |-> TRUE, raw |-> raw]

SseTables ==
    [endpoint : Endpoints,
     headers  : {NoHeaders} \cup {SomeHeaders(r) : r \in StringsUpTo(MaxHeaderLen)}]

NoTable == [endpoint |-> "", headers |-> NoHeaders]

\* ClientBuilder::for_url succeeds
for_url_ok(endpoint) == endpoint = "http://localhost:9091/sse"

\* missing headers handed on as a word instead of ""
headers_str_no_default(table) ==
    IF table.headers.present THEN table.headers.raw ELSE <<"a">>

\* the str handed to string_to_map: headers, or "" when there are none
headers_str(table) == IF table.headers.present THEN table.headers.raw ELSE <<>>

\* characters a header name may hold
TokenChars == {"a"}

\* ClientBuilder::header accepts the pair
header_ok(k, v) == k # <<>> /\ \A i \in 1..Len(k) : k[i] \in TokenChars

----------------------------------------------------------------------------
(* Messages and results. *)

TestSourceMessage(error, done, message) ==
    [error |-> error, done |-> done, message |-> message]

ConstructedMsg == TestSourceMessage(FALSE, FALSE, "Constructed SSE client")
\* a progress message that is marked as the last one
ReceivedMsgDone == TestSourceMessage(FALSE, TRUE, "Received message from SSE server")
ReceivedMsg == TestSourceMessage(FALSE, FALSE, "Received message from SSE server")
SuccessMsg == TestSourceMessage(FALSE, TRUE, "Successfully validated SSE connection")

Pending == [kind |-> "pending", e |-> ""]
OkResult == [kind |-> "Ok", e |-> ""]
Err(e) == [kind |-> "Err", e |-> e]

EndpointInvalid == "Endpoint URL is invalid"
HeadersInvalid == "Headers are invalid; should be comma-separated pairs"
InvalidHeader(k, v) == "Invalid header '" \o Str(k) \o ": " \o Str(v) \o "'"
\* a server error text that leaves the error out
ServerErrorNoDetail(e) == "Received error from server"
ServerError(e) == "Received error from server: " \o e
ServerClosed == "Server closed connection"
TimedOut == "Did not receive any messages after 30 seconds"

\* a terminal message that never reports a failure
TerminalMsgNeverError(r) ==
    IF r.kind = "Ok" THEN SuccessMsg ELSE TestSourceMessage(FALSE, TRUE, r.e)

\* a terminal message that always reports a failure
TerminalMsgAlwaysError(r) == TestSourceMessage(TRUE, TRUE, r.e)

\* the message start sends for the value test_internal returned
TerminalMsg(r) ==
    IF r.kind = "Ok" THEN SuccessMsg ELSE TestSourceMessage(TRUE, TRUE, r.e)

\* values of stream.next()
NotReady == [kind |-> "pending", detail |-> ""]
Event == [kind |-> "event", detail |-> ""]
ServerErrors == {"Eof", "UnexpectedResponse"}
StreamError(e) == [kind |-> "error", detail |-> e]
StreamEnd == [kind |-> "end", detail |-> ""]
StreamItems == {Event, StreamEnd} \cup {StreamError(e) : e \in ServerErrors}

----------------------------------------------------------------------------
(* SSEConnector::from_config and from_options. *)

\* Option<i64>
NoId == [present |-> FALSE, v |-> 0]
SomeId(v) == [present |-> TRUE, v |-> v]
Ids == {NoId, SomeId(7)}

\* Option<&ConnectionSchema>
NoSchema == [present |-> FALSE, format |-> ""]
SomeSchema == [present |-> TRUE, format |-> "json"]
Schemas == {NoSchema, SomeSchema}

TableName == "events"

InvalidHeadersFormat ==
    "Invalid format for headers; should be a comma-separated list of colon-separated key value pairs"
NoSchemaDefined == "No schema defined for SSE source"

\* anyhow::Result<Connection>, or the panic of an unwrap
NotCalled == [kind |-> "none", e |-> "", conn |-> <<>>]
ConnOk(conn) == [kind |-> "Ok", e |-> "", conn |-> <<conn>>]
ConnErr(e) == [kind |-> "Err", e |-> e, conn |-> <<>>]
ConnPanic == [kind |-> "Panic", e |-> "unwrap on None", conn |-> <<>>]

Connection(id, name, table, schema) ==
    [id              |-> id,
     name            |-> name,
     connection_type |-> "Source",
     schema          |-> schema,
     operator        |-> "connectors::sse::SSESourceFunc",
     config          |-> table,
     description     |-> "SSESource<" \o table.endpoint \o ">"]

\* from_config, statement by statement: the headers are parsed (81-88), the
\* OperatorConfig is built with schema.as_ref().unwrap() (94), and only then
\* is the schema turned into an error when it is missing (101-103)
from_config(id, name, table, schema) ==
    IF table.headers.present /\ ~string_to_map(table.headers.raw).ok
    THEN ConnErr(InvalidHeadersFormat)
    ELSE IF ~schema.present THEN ConnPanic
    ELSE IF ~schema.present THEN ConnErr(NoSchemaDefined)
    ELSE ConnOk(Connection(id, name, table, schema))

\* the options from_options is given, for options that hold "endpoint":
\* endpoint and, when present, headers
Options ==
    [endpoint : Endpoints,
     headers  : {NoHeaders} \cup {SomeHeaders(r) : r \in StringsUpTo(MaxHeaderLen)}]

\* from_options: the table is put together from the options and handed to
\* from_config with no id
from_options(name, opts, schema) ==
    from_config(NoId, name,
                [endpoint |-> opts.endpoint, headers |-> opts.headers], schema)

NoCall ==
    [fn |-> "none", id |-> NoId, name |-> "", table |-> NoTable,
     schema |-> NoSchema, result |-> NotCalled]

----------------------------------------------------------------------------
(* A run that has not been started. *)
IdleRun ==
    [caller |-> "idle", pc |-> "unspawned", config |-> NoTable,
     result |-> Pending, stream |-> "none", streamItem |-> NotReady,
     elapsed |-> 0, branch |-> "none", bothReady |-> FALSE, chan |-> <<>>,
     rxOpen |-> TRUE, received |-> <<>>, sent |-> <<>>, failedSends |-> 0]

Init ==
    /\ caller = "idle"
    /\ pc = "unspawned"
    /\ config = NoTable
    /\ result = Pending
    /\ stream = "none"
    /\ streamItem = NotReady
    /\ elapsed = 0
    /\ branch = "none"
    /\ bothReady = FALSE
    /\ chan = <<>>
    /\ rxOpen = TRUE
    /\ received = <<>>
    /\ sent = <<>>
    /\ failedSends = 0
    /\ peer = IdleRun
    /\ call = NoCall

----------------------------------------------------------------------------
(* Connector::test and SseTester::start, on the caller's thread. *)

\* what tokio::task::spawn leaves behind: a task that has not run yet
spawn(table) ==
    /\ pc = "unspawned"
    /\ pc' = "spawned"
    /\ config' = table

\* a start that runs the test before it returns
start_blocking(table) ==
    /\ spawn(table)
    /\ caller' = "in_start"

\* start: spawn the task and return
start(table) ==
    /\ spawn(table)
    /\ caller' = "returned"

\* test: SseTester { config: table, tx }.start()
test ==
    /\ caller = "idle"
    /\ \E table \in SseTables : start(table)
    /\ UNCHANGED <<peer, call, result, stream, streamItem, elapsed, branch, bothReady,
                   chan, rxOpen, received, sent, failedSends>>

----------------------------------------------------------------------------
(* The spawned task. *)

\* a drop that leaves the connection as it is
ScopeLeak(s) == s

\* the stream local goes out of scope: test_internal returns, or a panic
\* unwinds through it
ScopeExit(s) ==
    CASE s = "built" -> "dropped"
      [] s = "open"  -> "closed"
      [] OTHER       -> s

\* a send whose error is ignored: the task goes on
ignore_send_err(next) == next

\* .unwrap() of the Err a send returns: the task panics
unwrap_send_err(next) == "panicked"

\* a send that gives up on a full channel and lets the task go on
send_skip_when_full(msg, next) ==
    \/ /\ ~rxOpen
       /\ failedSends' = failedSends + 1
       /\ pc' = unwrap_send_err(next)
       /\ UNCHANGED <<chan, sent, peer>>
    \/ /\ rxOpen
       /\ Len(chan) < ChanCap
       /\ chan' = Append(chan, msg)
       /\ sent' = Append(sent, msg)
       /\ pc' = next
       /\ UNCHANGED <<failedSends, peer>>
    \/ /\ rxOpen
       /\ Len(chan) >= ChanCap
       /\ pc' = next
       /\ UNCHANGED <<chan, sent, failedSends, peer>>

\* a send through a Sender that the runs share: the message lands in the
\* other run's channel
send_shared_sink(msg, next) ==
    \/ /\ ~rxOpen
       /\ failedSends' = failedSends + 1
       /\ pc' = unwrap_send_err(next)
       /\ UNCHANGED <<chan, sent, peer>>
    \/ /\ rxOpen
       /\ Len(peer.chan) < ChanCap
       /\ peer' = [peer EXCEPT !.chan = Append(@, msg)]
       /\ sent' = Append(sent, msg)
       /\ pc' = next
       /\ UNCHANGED <<failedSends, chan>>

\* tx.send(Ok(msg)).await.unwrap()
send(msg, next) ==
    \/ /\ ~rxOpen
       /\ failedSends' = failedSends + 1
       /\ pc' = unwrap_send_err(next)
       /\ UNCHANGED <<chan, sent, peer>>
    \/ /\ rxOpen
       /\ Len(chan) < ChanCap
       /\ chan' = Append(chan, msg)
       /\ sent' = Append(sent, msg)
       /\ pc' = next
       /\ UNCHANGED <<failedSends, peer>>

\* the header part of the synchronous code: the pairs of the map are visited
\* in no fixed order, so any rejected pair can be the one that is reported
build_headers(table) ==
    LET headers == string_to_map(headers_str(table))
        bad     == {k \in DOMAIN headers.map : ~header_ok(k, headers.map[k])}
    IN  IF ~headers.ok THEN {Err(HeadersInvalid)}
        ELSE IF bad # {} THEN {Err(InvalidHeader(k, headers.map[k])) : k \in bad}
        ELSE {OkResult}

\* a build that does not look at the endpoint
build_no_url_check(table) == build_headers(table)

\* a build that does not look at the headers
build_no_header_check(table) ==
    IF ~for_url_ok(table.endpoint) THEN {Err(EndpointInvalid)} ELSE {OkResult}

\* a build that looks at the headers before the endpoint
build_headers_first(table) ==
    IF build_headers(table) # {OkResult} THEN build_headers(table)
    ELSE IF ~for_url_ok(table.endpoint) THEN {Err(EndpointInvalid)}
    ELSE {OkResult}

\* the results the synchronous part of test_internal can end with
build(table) ==
    IF ~for_url_ok(table.endpoint) THEN {Err(EndpointInvalid)}
    ELSE build_headers(table)

\* test_internal up to client.build().stream()
test_internal_build ==
    /\ pc = "spawned"
    /\ \E r \in build(config) :
          IF r.kind = "Ok"
          THEN /\ stream' = "built"
               /\ pc' = "send_constructed"
               /\ UNCHANGED result
          ELSE /\ result' = r
               /\ pc' = "send_terminal"
               /\ stream' = ScopeExit(stream)
    /\ UNCHANGED <<peer, call, caller, config, streamItem, elapsed, branch, bothReady,
                   chan, rxOpen, received, sent, failedSends>>

\* the send of "Constructed SSE client"
test_internal_send_constructed ==
    /\ pc = "send_constructed"
    /\ send(ConstructedMsg, "select")
    /\ stream' = IF pc' = "panicked" THEN ScopeExit(stream) ELSE stream
    /\ UNCHANGED <<call, caller, config, result, streamItem, elapsed, branch,
                   bothReady, rxOpen, received>>

\* select! is polled for the first time: stream.next() starts the request
\* and the sleep is created
select_poll ==
    /\ pc = "select"
    /\ pc' = "select_wait"
    /\ stream' = "open"
    /\ elapsed' = 0
    /\ UNCHANGED <<peer, call, caller, config, result, streamItem, branch, bothReady,
                   chan, rxOpen, received, sent, failedSends>>

\* a sleep that is ready at once
sleep_ready_at_once(e) == TRUE

\* a sleep that never becomes ready
sleep_never_ready(e) == FALSE

\* tokio::time::sleep(timeout) is ready
sleep_ready(e) == e >= timeout

\* a data branch that polls the stream again after an error
select_stream_next_retry ==
    /\ pc = "select_wait"
    /\ streamItem # NotReady
    /\ branch' = "data"
    /\ bothReady' = sleep_ready(elapsed)
    /\ CASE streamItem.kind = "event" ->
               /\ pc' = "send_received"
               /\ UNCHANGED <<result, stream, streamItem>>
         [] streamItem.kind = "error" ->
               /\ pc' = "select_wait"
               /\ streamItem' = NotReady
               /\ UNCHANGED <<result, stream>>
         [] OTHER ->
               /\ result' = Err(ServerClosed)
               /\ pc' = "send_terminal"
               /\ stream' = ScopeExit(stream)
               /\ UNCHANGED streamItem
    /\ UNCHANGED <<peer, call, caller, config, elapsed, chan, rxOpen,
                   received, sent, failedSends>>

\* the stream.next() branch of select! completes
select_stream_next ==
    /\ pc = "select_wait"
    /\ streamItem # NotReady
    /\ branch' = "data"
    /\ bothReady' = sleep_ready(elapsed)
    /\ CASE streamItem.kind = "event" ->
               /\ pc' = "send_received"
               /\ UNCHANGED <<result, stream>>
         [] streamItem.kind = "error" ->
               /\ result' = Err(ServerError(streamItem.detail))
               /\ pc' = "send_terminal"
               /\ stream' = ScopeExit(stream)
         [] OTHER ->
               /\ result' = Err(ServerClosed)
               /\ pc' = "send_terminal"
               /\ stream' = ScopeExit(stream)
    /\ UNCHANGED <<peer, call, caller, config, streamItem, elapsed, chan, rxOpen,
                   received, sent, failedSends>>

\* a sleep that also ends the send of the Received message
select_sleep_over_send ==
    /\ pc \in {"select_wait", "send_received"}
    /\ sleep_ready(elapsed)
    /\ branch' = "timeout"
    /\ bothReady' = (streamItem # NotReady)
    /\ result' = Err(TimedOut)
    /\ pc' = "send_terminal"
    /\ stream' = ScopeExit(stream)
    /\ UNCHANGED <<peer, call, caller, config, streamItem, elapsed, chan, rxOpen,
                   received, sent, failedSends>>

\* the sleep branch of select! completes
select_sleep ==
    /\ pc = "select_wait"
    /\ sleep_ready(elapsed)
    /\ branch' = "timeout"
    /\ bothReady' = (streamItem # NotReady)
    /\ result' = Err(TimedOut)
    /\ pc' = "send_terminal"
    /\ stream' = ScopeExit(stream)
    /\ UNCHANGED <<peer, call, caller, config, streamItem, elapsed, chan, rxOpen,
                   received, sent, failedSends>>

\* the send of "Received message from SSE server", then Ok(())
test_internal_send_received ==
    /\ pc = "send_received"
    /\ send(ReceivedMsg, "send_terminal")
    /\ result' = IF pc' = "send_terminal" THEN OkResult ELSE result
    /\ stream' = ScopeExit(stream)
    /\ UNCHANGED <<call, caller, config, streamItem, elapsed, branch, bothReady,
                   rxOpen, received>>

\* start's send of the terminal message
start_send_terminal ==
    /\ pc = "send_terminal"
    /\ send(TerminalMsg(result), "done")
    /\ UNCHANGED <<call, caller, config, result, stream, streamItem, elapsed,
                   branch, bothReady, rxOpen, received>>

task ==
    \/ test_internal_build
    \/ test_internal_send_constructed
    \/ select_poll
    \/ select_stream_next
    \/ select_sleep
    \/ test_internal_send_received
    \/ start_send_terminal

----------------------------------------------------------------------------
(* The environment: the server, the clock and the Receiver. *)

\* the server answers the request: an event, an error, or the end
server_respond ==
    /\ stream = "open"
    /\ streamItem = NotReady
    /\ \E item \in StreamItems : streamItem' = item
    /\ UNCHANGED <<peer, call, caller, pc, config, result, stream, elapsed, branch,
                   bothReady, chan, rxOpen, received, sent, failedSends>>

\* a second passes while the sleep exists
tick ==
    /\ pc = "select_wait"
    /\ elapsed < timeout + MaxSlack
    /\ elapsed' = elapsed + 1
    /\ UNCHANGED <<peer, call, caller, pc, config, result, stream, streamItem, branch,
                   bothReady, chan, rxOpen, received, sent, failedSends>>

\* Receiver::recv takes the oldest message
recv ==
    /\ rxOpen
    /\ chan # <<>>
    /\ received' = Append(received, Head(chan))
    /\ chan' = Tail(chan)
    /\ UNCHANGED <<peer, call, caller, pc, config, result, stream, streamItem, elapsed,
                   branch, bothReady, rxOpen, sent, failedSends>>

\* the Receiver is dropped: the channel closes and its buffer is discarded
drop_receiver ==
    /\ rxOpen
    /\ rxOpen' = FALSE
    /\ chan' = <<>>
    /\ UNCHANGED <<peer, call, caller, pc, config, result, stream, streamItem, elapsed,
                   branch, bothReady, received, sent, failedSends>>

----------------------------------------------------------------------------
Next ==
    \/ test
    \/ test_internal_build
    \/ test_internal_send_constructed
    \/ select_poll
    \/ select_stream_next
    \/ select_sleep
    \/ test_internal_send_received
    \/ start_send_terminal
    \/ server_respond
    \/ tick
    \/ recv
    \/ drop_receiver

Spec == Init /\ [][Next]_vars

\* the receiver is never dropped
NextLive ==
    \/ test
    \/ test_internal_build
    \/ test_internal_send_constructed
    \/ select_poll
    \/ select_stream_next
    \/ select_sleep
    \/ test_internal_send_received
    \/ start_send_terminal
    \/ server_respond
    \/ tick
    \/ recv

\* the runtime runs a task that can run, time passes, and the receiver takes
\* what is in the channel
LiveSpec ==
    /\ Init
    /\ [][NextLive]_vars
    /\ WF_vars(task)
    /\ WF_vars(tick)
    /\ WF_vars(recv)

----------------------------------------------------------------------------
(* Calls of from_config and from_options. *)

RunVars == <<caller, pc, config, result, stream, streamItem, elapsed, branch,
             bothReady, chan, rxOpen, received, sent, failedSends>>

call_from_config ==
    /\ \E id \in Ids, table \in SseTables, schema \in Schemas :
          call' = [fn |-> "from_config", id |-> id, name |-> TableName,
                   table |-> table, schema |-> schema,
                   result |-> from_config(id, TableName, table, schema)]
    /\ UNCHANGED <<RunVars, peer>>

call_from_options ==
    /\ \E opts \in Options, schema \in Schemas :
          call' = [fn |-> "from_options", id |-> NoId, name |-> TableName,
                   table |-> [endpoint |-> opts.endpoint, headers |-> opts.headers],
                   schema |-> schema,
                   result |-> from_options(TableName, opts, schema)]
    /\ UNCHANGED <<RunVars, peer>>

NextConfig ==
    \/ call_from_config
    \/ call_from_options

ConfigSpec == Init /\ [][NextConfig]_vars

----------------------------------------------------------------------------
(* Two runs. Each call of test makes its own SseTester, which owns its table
   and its Sender, and spawns its own task; the variables hold the run the
   runtime is executing and peer holds the other one. *)

\* the run the variables hold
Focus ==
    [caller |-> caller, pc |-> pc, config |-> config, result |-> result,
     stream |-> stream, streamItem |-> streamItem, elapsed |-> elapsed,
     branch |-> branch, bothReady |-> bothReady, chan |-> chan,
     rxOpen |-> rxOpen, received |-> received, sent |-> sent,
     failedSends |-> failedSends]

\* the runtime, the server or the receiver turns to the other run
switch ==
    /\ peer # Focus
    /\ peer' = Focus
    /\ caller' = peer.caller
    /\ pc' = peer.pc
    /\ config' = peer.config
    /\ result' = peer.result
    /\ stream' = peer.stream
    /\ streamItem' = peer.streamItem
    /\ elapsed' = peer.elapsed
    /\ branch' = peer.branch
    /\ bothReady' = peer.bothReady
    /\ chan' = peer.chan
    /\ rxOpen' = peer.rxOpen
    /\ received' = peer.received
    /\ sent' = peer.sent
    /\ failedSends' = peer.failedSends
    /\ UNCHANGED call

\* the tables of the two runs: one that builds its client, one with an
\* endpoint that is no URL, one with headers that do not parse, one with a
\* header pair that the client rejects
PairTables ==
    {[endpoint |-> "http://localhost:9091/sse", headers |-> NoHeaders],
     [endpoint |-> "not a url", headers |-> NoHeaders],
     [endpoint |-> "http://localhost:9091/sse", headers |-> SomeHeaders(<<"a">>)],
     [endpoint |-> "http://localhost:9091/sse", headers |-> SomeHeaders(<<"@", ":">>)]}

\* test, called with one of the tables of the pair
test_pair ==
    /\ caller = "idle"
    /\ \E table \in PairTables : start(table)
    /\ UNCHANGED <<peer, call, result, stream, streamItem, elapsed, branch, bothReady,
                   chan, rxOpen, received, sent, failedSends>>

\* time passes while the sleep exists: up to its deadline, and second by
\* second after it
tick_to_deadline ==
    /\ pc = "select_wait"
    /\ elapsed < timeout + MaxSlack
    /\ elapsed' = IF elapsed < timeout THEN timeout ELSE elapsed + 1
    /\ UNCHANGED <<peer, call, caller, pc, config, result, stream, streamItem, branch,
                   bothReady, chan, rxOpen, received, sent, failedSends>>

NextTwoRuns ==
    \/ test_pair
    \/ test_internal_build
    \/ test_internal_send_constructed
    \/ select_poll
    \/ select_stream_next
    \/ select_sleep
    \/ test_internal_send_received
    \/ start_send_terminal
    \/ server_respond
    \/ tick_to_deadline
    \/ recv
    \/ drop_receiver
    \/ switch

TwoRunSpec == Init /\ [][NextTwoRuns]_vars

----------------------------------------------------------------------------
(* Properties. *)

IsPrefix(s, t) == Len(s) <= Len(t) /\ s = SubSeq(t, 1, Len(s))

SuccessSeq == <<ConstructedMsg, ReceivedMsg, SuccessMsg>>
TimeoutMsg == TestSourceMessage(TRUE, TRUE, TimedOut)
TimeoutSeq == <<ConstructedMsg, TimeoutMsg>>
EndpointInvalidMsg == TestSourceMessage(TRUE, TRUE, EndpointInvalid)

HeadersParseFail(table) == ~string_to_map(headers_str(table)).ok
RejectedPairs(table) ==
    LET headers == string_to_map(headers_str(table))
    IN  {k \in DOMAIN headers.map : ~header_ok(k, headers.map[k])}
HeaderFailureMsgs(table) ==
    IF HeadersParseFail(table)
    THEN {TestSourceMessage(TRUE, TRUE, HeadersInvalid)}
    ELSE {TestSourceMessage(TRUE, TRUE,
              InvalidHeader(k, string_to_map(headers_str(table)).map[k])) :
          k \in RejectedPairs(table)}

\* C1: in every state the accepted messages have done = true at most once and
\* only in the last place, so nothing follows the done = true message and all
\* before it have done = false; a run that has reached its outcome and ended
\* (success or any classified failure) has sent that done = true message, and
\* the task has ended as soon as it is sent.  A run cut short by a closed sink
\* (C8) ends in "panicked" and has sent a done = false prefix of that sequence.
C1_AlwaysTerminal ==
    /\ \A i \in 1..Len(sent) : sent[i].done => i = Len(sent)
    /\ pc = "done" => /\ result # Pending
                      /\ sent # <<>>
                      /\ sent[Len(sent)].done
    /\ (sent # <<>> /\ sent[Len(sent)].done) => pc = "done"

C1_Witness ==
    /\ pc = "done"
    /\ Len(sent) >= 2
    /\ sent[Len(sent)].done
    /\ ~sent[1].done

\* C2: with the receiver alive and taking messages, the clock running and the
\* runtime running the task, a spawned run always gets to its end with the
\* done = true message sent, whatever the server does.
C2_Terminates ==
    (pc # "unspawned") ~> (pc = "done" /\ sent # <<>> /\ sent[Len(sent)].done)

C2_Witness ==
    /\ pc = "done"
    /\ stream = "closed"
    /\ streamItem = NotReady
    /\ sent[Len(sent)].done

\* C3: when the race is resolved with an event ready and the sleep not yet
\* ready, the data branch is taken; and a run whose data branch got an event
\* sends Constructed, Received, Success in that order and nothing else: what it
\* has sent is always a prefix of these three, and all three once it has ended.
C3_ImmediateSuccess ==
    /\ (branch # "none" /\ streamItem = Event /\ ~bothReady) => branch = "data"
    /\ (branch = "data" /\ streamItem = Event) =>
          /\ build(config) = {OkResult}
          /\ IsPrefix(sent, SuccessSeq)
          /\ sent # <<>>
          /\ pc = "done" => sent = SuccessSeq

C3_Witness ==
    /\ pc = "done"
    /\ branch = "data"
    /\ ~bothReady
    /\ streamItem = Event
    /\ sent = SuccessSeq

\* C4: a run whose endpoint is not a URL never builds or polls a stream, never
\* creates the sleep, sends no progress message, and sends the one terminal
\* failure "Endpoint URL is invalid" and nothing else.
C4_InvalidEndpoint ==
    (pc # "unspawned" /\ config.endpoint = "not a url") =>
        /\ stream = "none"
        /\ branch = "none"
        /\ elapsed = 0
        /\ IsPrefix(sent, <<EndpointInvalidMsg>>)
        /\ pc = "done" => sent = <<EndpointInvalidMsg>>

C4_Witness ==
    /\ pc = "done"
    /\ config.endpoint = "not a url"
    /\ sent = <<EndpointInvalidMsg>>

\* C5: a run with a valid endpoint whose headers do not parse, or parse to a
\* pair the client rejects, never builds or polls a stream, sends no progress
\* message, and sends one terminal failure (for unparseable headers the
\* headers-invalid text, else the text naming a rejected pair) and nothing else.
C5_InvalidHeaders ==
    (/\ pc # "unspawned"
     /\ config.endpoint # "not a url"
     /\ (HeadersParseFail(config) \/ RejectedPairs(config) # {})) =>
        /\ stream = "none"
        /\ branch = "none"
        /\ \E m \in HeaderFailureMsgs(config) :
              /\ m.error /\ m.done
              /\ IsPrefix(sent, <<m>>)
              /\ pc = "done" => sent = <<m>>
              /\ result # Pending => result = Err(m.message)

C5_Witness ==
    /\ pc = "done"
    /\ config.endpoint # "not a url"
    /\ RejectedPairs(config) # {}
    /\ Len(sent) = 1
    /\ sent[1].error

\* C6: the timeout text names the duration of the sleep; a run whose stream has
\* yielded nothing when the race is resolved takes the sleep branch and sends
\* Constructed and then the timeout failure and nothing else; and the timeout
\* failure is never the result, nor sent, before the sleep has run its full
\* duration.
C6_Timeout ==
    /\ TimedOut = "Did not receive any messages after " \o ToString(timeout) \o " seconds"
    /\ (branch # "none" /\ streamItem = NotReady) =>
          /\ branch = "timeout"
          /\ result = Err(TimedOut)
          /\ IsPrefix(sent, TimeoutSeq)
          /\ sent # <<>>
          /\ pc = "done" => sent = TimeoutSeq
    /\ (result = Err(TimedOut) \/ \E i \in 1..Len(sent) : sent[i] = TimeoutMsg) =>
          elapsed >= timeout

C6_Witness ==
    /\ pc = "done"
    /\ streamItem = NotReady
    /\ sent = TimeoutSeq
    /\ elapsed = timeout

\* C7: whenever both the stream item and the sleep were ready when select!
\* completed, the data branch is the one that completed.
C7_DataBranchPreferred == bothReady => branch = "data"

\* C8: a send fails at most once; after it the task has panicked, the stream is
\* not open, and nothing of the run changes any more (no send, no poll of the
\* stream, no sleep); a run that failed at its first send never opened the
\* stream; and no send is accepted once the receiver is gone.
C8_AbortOnClosedSink ==
    /\ [](failedSends > 0 =>
            /\ failedSends = 1
            /\ ~rxOpen
            /\ pc = "panicked"
            /\ stream \notin {"built", "open"}
            /\ sent = <<>> => (stream \in {"none", "dropped"} /\ branch = "none"))
    /\ [][failedSends > 0 =>
            UNCHANGED <<pc, sent, failedSends, stream, streamItem, elapsed,
                        branch, result>>]_vars
    /\ [][~rxOpen => sent' = sent]_vars

C8_Witness ==
    /\ pc = "panicked"
    /\ failedSends = 1
    /\ stream = "dropped"
    /\ sent = <<>>

\* C9: once test_internal has returned or the task has ended, by success, by a
\* classified failure or by a panic on a closed sink, the stream is neither
\* built nor open.
C9_ConnectionReleased ==
    pc \in {"send_terminal", "done", "panicked"} => stream \notin {"built", "open"}

C9_Witness ==
    /\ pc = "panicked"
    /\ stream = "closed"
    /\ sent = <<ConstructedMsg>>

\* C10: in every state of the run, from the task not having taken a step to
\* its being suspended on a full sink, ended or panicked, the caller has
\* returned from start; the caller is never in any other position; the step
\* that returns is the one that spawns the task, before anything of the run has
\* happened; and no step of the run or of its environment changes what the
\* caller has seen.
C10_StartReturns ==
    /\ [](/\ caller \in {"idle", "returned"}
          /\ caller = "idle" <=> pc = "unspawned")
    /\ [][caller' # caller =>
            /\ pc = "unspawned" /\ pc' = "spawned"
            /\ caller' = "returned"
            /\ result' = Pending /\ stream' = "none" /\ sent' = <<>>
            /\ failedSends' = 0]_vars

C10_Witness ==
    /\ caller = "returned"
    /\ pc \in {"send_constructed", "send_received", "send_terminal"}
    /\ rxOpen
    /\ Len(chan) = ChanCap

\* the positions at which the task sends, and the message it has generated
\* there
SendPcs == {"send_constructed", "send_received", "send_terminal"}
MsgAt(p) ==
    CASE p = "send_constructed" -> ConstructedMsg
      [] p = "send_received"    -> ReceivedMsg
      [] OTHER                  -> TerminalMsg(result)

C13_ErrorOnlyTerminal ==
    /\ \A i \in 1..Len(sent) :
          /\ ~sent[i].done => ~sent[i].error
          /\ sent[i].error => /\ sent[i].done
                              /\ i = Len(sent)
                              /\ result = Err(sent[i].message)
    /\ (pc = "done" /\ result.kind = "Err") =>
          sent[Len(sent)] = [error |-> TRUE, done |-> TRUE, message |-> result.e]
    /\ (pc = "done" /\ result.kind = "Ok") =>
          /\ ~sent[Len(sent)].error
          /\ sent[Len(sent)].done
          /\ sent[Len(sent)].message = "Successfully validated SSE connection"

C13_Witness ==
    /\ pc = "done"
    /\ result = Err(ServerClosed)
    /\ Len(sent) = 2
    /\ ~sent[1].error
    /\ sent[2].error /\ sent[2].done

\* C14: a run whose data branch got an error ends with the failure whose text
\* is "Received error from server: " followed by the error the server gave
\* (different errors give different texts); one whose data branch got the end
\* of the stream ends with "Server closed connection"; one whose sleep branch
\* completed ends with the timeout failure; each sends Constructed and then
\* that failure, and no run whose test_internal returned an Err has sent
\* "Received message from SSE server".
C14_RaceClassification ==
    /\ \A e1, e2 \in ServerErrors : e1 # e2 => ServerError(e1) # ServerError(e2)
    /\ (branch = "data" /\ streamItem.kind = "error") =>
          LET text == "Received error from server: " \o streamItem.detail
              seq  == <<ConstructedMsg, TestSourceMessage(TRUE, TRUE, text)>>
          IN  /\ result = Err(text)
              /\ IsPrefix(sent, seq)
              /\ pc = "done" => sent = seq
    /\ (branch = "data" /\ streamItem.kind = "end") =>
          LET seq == <<ConstructedMsg,
                       TestSourceMessage(TRUE, TRUE, "Server closed connection")>>
          IN  /\ result = Err("Server closed connection")
              /\ IsPrefix(sent, seq)
              /\ pc = "done" => sent = seq
    /\ branch = "timeout" =>
          /\ result = Err(TimedOut)
          /\ IsPrefix(sent, TimeoutSeq)
          /\ pc = "done" => sent = TimeoutSeq
    /\ result.kind = "Err" => \A i \in 1..Len(sent) : sent[i] # ReceivedMsg

C14_Witness ==
    /\ pc = "done"
    /\ branch = "data"
    /\ streamItem = StreamError("Eof")
    /\ Len(sent) = 2
    /\ sent[2] = TestSourceMessage(TRUE, TRUE, "Received error from server: Eof")

\* C15: if "Constructed SSE client" has been accepted, the endpoint was valid,
\* the headers parsed and no pair was rejected; and the stream is open, or has
\* been open, only if that message was accepted first: it is opened in a step
\* that starts from a built, never polled stream with the message already
\* accepted.
C15_ConstructedBeforeConnect ==
    /\ []((\E i \in 1..Len(sent) : sent[i] = ConstructedMsg) =>
            /\ sent[1] = ConstructedMsg
            /\ config.endpoint # "not a url"
            /\ ~HeadersParseFail(config)
            /\ RejectedPairs(config) = {})
    /\ [](stream \in {"open", "closed"} => (sent # <<>> /\ sent[1] = ConstructedMsg))
    /\ [][(stream' = "open" /\ stream # "open") =>
            /\ stream = "built"
            /\ sent = <<ConstructedMsg>>
            /\ sent' = sent]_vars

C15_Witness ==
    /\ pc = "select"
    /\ stream = "built"
    /\ sent = <<ConstructedMsg>>
    /\ config.headers.present
    /\ config.headers.raw # <<>>

\* C16: the stream is opened only from the built state, so at most once; once
\* it is closed or dropped it stays so; and once a branch of select! has
\* completed, the task is never again at select!, the item the stream gave and
\* the branch stay what they were, and the stream only stays as it is or goes
\* out of scope.
C16_SingleShot ==
    /\ [][(stream' = "open" /\ stream # "open") => stream = "built"]_vars
    /\ [][(stream \in {"closed", "dropped"}) => stream' = stream]_vars
    /\ [][branch # "none" =>
            /\ branch' = branch
            /\ streamItem' = streamItem
            /\ pc' \notin {"select", "select_wait"}
            /\ stream' \in {stream, ScopeExit(stream)}]_vars
    /\ [](branch # "none" => pc \notin {"select", "select_wait"})

C16_Witness ==
    /\ pc = "done"
    /\ branch = "data"
    /\ streamItem.kind = "error"
    /\ stream = "closed"

\* C17: the endpoint is looked at first, then the headers as a whole, then
\* the pairs: a run whose endpoint is invalid returns "Endpoint URL is invalid"
\* whatever its headers are; a run with a valid endpoint and headers that do
\* not parse returns the headers-invalid text; and a header-pair text is
\* returned only when the endpoint is valid and the headers parse.
C17_ValidationOrder ==
    result # Pending =>
        /\ config.endpoint = "not a url" => result = Err(EndpointInvalid)
        /\ (config.endpoint # "not a url" /\ HeadersParseFail(config)) =>
              result = Err(HeadersInvalid)
        /\ (\E k \in RejectedPairs(config) :
               result = Err(InvalidHeader(k, string_to_map(headers_str(config)).map[k]))) =>
              (config.endpoint # "not a url" /\ ~HeadersParseFail(config))

C17_Witness ==
    /\ pc = "done"
    /\ config.endpoint = "not a url"
    /\ HeadersParseFail(config)
    /\ sent = <<EndpointInvalidMsg>>

\* the messages of a run whose client was built, by what the race gave
RaceSeq(b, item) ==
    CASE b = "timeout" -> TimeoutSeq
      [] b = "data" /\ item.kind = "event" -> SuccessSeq
      [] b = "data" /\ item.kind = "error" ->
            <<ConstructedMsg, TestSourceMessage(TRUE, TRUE, ServerError(item.detail))>>
      [] b = "data" /\ item.kind = "end" ->
            <<ConstructedMsg, TestSourceMessage(TRUE, TRUE, ServerClosed)>>
      [] OTHER -> <<ConstructedMsg>>

RaceErrors == {ServerError(e) : e \in ServerErrors} \cup {ServerClosed, TimedOut}

\* C18: for every endpoint the synchronous part of test_internal ends the same
\* way with no headers as with headers present and empty; with a valid
\* endpoint a run of either kind builds its client, never returns a headers or
\* header-pair failure, and sends the messages that the race alone decides.
C18_NoHeadersAsEmpty ==
    /\ \A e \in Endpoints :
          build([endpoint |-> e, headers |-> NoHeaders]) =
          build([endpoint |-> e, headers |-> SomeHeaders(<<>>)])
    /\ (/\ pc \notin {"unspawned", "spawned"}
        /\ config.endpoint # "not a url"
        /\ config.headers \in {NoHeaders, SomeHeaders(<<>>)}) =>
          /\ stream # "none"
          /\ result.kind = "Err" => result.e \in RaceErrors
          /\ IsPrefix(sent, RaceSeq(branch, streamItem))
          /\ pc = "done" => sent = RaceSeq(branch, streamItem)

C18_Witness ==
    /\ pc = "done"
    /\ config.headers = SomeHeaders(<<>>)
    /\ config.endpoint # "not a url"
    /\ sent = SuccessSeq

\* C19: a timeout failure is never accepted after "Received message from SSE
\* server", and the success message is accepted only right after it; while the
\* task is at the send of the Received message the data branch is the one that
\* completed, and the task leaves that send only to return Ok(()) or by a panic
\* on a closed sink, also when the sleep was ready as well.
C19_ReceivedThenSuccess ==
    /\ [](\A i \in 1..Len(sent) :
            /\ sent[i] = TimeoutMsg => \A j \in 1..(i - 1) : sent[j] # ReceivedMsg
            /\ sent[i] = SuccessMsg => (i > 1 /\ sent[i - 1] = ReceivedMsg)
            /\ sent[i] = ReceivedMsg =>
                  (pc = "done" => sent[Len(sent)] = SuccessMsg))
    /\ [](pc = "send_received" => (branch = "data" /\ streamItem = Event))
    /\ [][pc = "send_received" =>
            \/ pc' = "send_received" /\ result' = result /\ branch' = branch
            \/ pc' = "send_terminal" /\ result' = OkResult /\ branch' = branch
            \/ pc' = "panicked" /\ ~rxOpen]_vars

C19_Witness ==
    /\ pc = "done"
    /\ bothReady
    /\ elapsed >= timeout
    /\ sent = SuccessSeq

\* C20: a call of from_config or from_options ends with Ok or Err and never
\* with a panic; with headers present that do not parse it ends with the
\* invalid-headers error and no Connection; with headers that are fine and no
\* schema it ends with the error "No schema defined for SSE source" and no
\* Connection.
C20_FromConfigNeverAborts ==
    call.fn # "none" =>
        /\ call.result.kind \in {"Ok", "Err"}
        /\ (call.table.headers.present /\ HeadersParseFail(call.table)) =>
              call.result = ConnErr(InvalidHeadersFormat)
        /\ (~(call.table.headers.present /\ HeadersParseFail(call.table))
            /\ ~call.schema.present) =>
              call.result = ConnErr("No schema defined for SSE source")

\* what a run's sink holds is what that run's task had accepted
SinkOwn(r) ==
    /\ IsPrefix(r.received \o r.chan, r.sent)
    /\ r.rxOpen => r.received \o r.chan = r.sent

\* the messages and the outcome of run r are those of a run on its own: they
\* follow from its own table, from what its own race gave and from its own
\* sink, and it panics only when its own receiver is gone
AsAlone(r) ==
    r.pc \notin {"unspawned", "spawned"} =>
        LET built == OkResult \in build(r.config)
            seq   == IF built THEN RaceSeq(r.branch, r.streamItem)
                     ELSE <<TerminalMsg(r.result)>>
        IN  /\ ~built => r.result \in build(r.config)
            /\ (built /\ r.result.kind = "Err") => r.result.e \in RaceErrors
            /\ IsPrefix(r.sent, seq)
            /\ r.pc = "done" => r.sent = seq
            /\ r.pc = "panicked" => ~r.rxOpen
            /\ (r.pc = "send_terminal" /\ built) =>
                  Append(r.sent, TerminalMsg(r.result)) = seq

\* C12: with two runs started on distinct sinks and their steps interleaved
\* in any order, each sink holds only messages its own run had accepted, each
\* run's messages and outcome are those it has on its own, and no step of one
\* run (a failure, a timeout and a panic on its closed sink included) changes
\* anything of the other run.
C12_RunsIndependent ==
    /\ [](SinkOwn(Focus) /\ SinkOwn(peer) /\ AsAlone(Focus) /\ AsAlone(peer))
    /\ [][peer' = peer \/ (peer' = Focus /\ Focus' = peer)]_vars

C12_Witness ==
    /\ peer.pc = "panicked"
    /\ peer.sent = <<ConstructedMsg>>
    /\ pc = "done"
    /\ rxOpen
    /\ received = SuccessSeq

====
